---- MODULE Spec2Model ----
(***************************************************************************)
(* AutoFilm (src/autofilm.py): for every configured Alist server, log in,  *)
(* list the files below the base path and run one _file_process task per   *)
(* file; videos become .strm pointer files, subtitles/images/nfo files are *)
(* downloaded when their toggle is on.                                     *)
(*                                                                         *)
(* Strings of the program are sequences of one-character strings, so that  *)
(* lower(), endswith(), replace(), index() and the pathlib operations are  *)
(* computed character by character as Python computes them.                *)
(***************************************************************************)
EXTENDS Integers, Sequences, FiniteSets, TLC

\* Longest AlistServerList the model draws.
MaxServers == 3
\* Largest number of files a remote listing holds.
MaxEntries == 2

\* Python's None, as a value no string of characters equals.
None == <<"<None>">>

-----------------------------------------------------------------------------
\* String operations of Python, on sequences of characters.

UPPER == <<"A","B","C","D","E","F","G","H","I","J","K","L","M",
           "N","O","P","Q","R","S","T","U","V","W","X","Y","Z">>
LOWER == <<"a","b","c","d","e","f","g","h","i","j","k","l","m",
           "n","o","p","q","r","s","t","u","v","w","x","y","z">>

LowerChar(c) ==
  IF \E k \in 1..Len(UPPER) : UPPER[k] = c
  THEN LOWER[CHOOSE k \in 1..Len(UPPER) : UPPER[k] = c]
  ELSE c

\* str.lower()
lower(s) == [k \in 1..Len(s) |-> LowerChar(s[k])]

\* str.endswith(suffix)
endswith(s, suf) ==
  /\ Len(suf) <= Len(s)
  /\ SubSeq(s, Len(s) - Len(suf) + 1, Len(s)) = suf

\* str.endswith(tuple): true when any member of the tuple is a suffix
endswith_any(s, exts) == \E k \in 1..Len(exts) : endswith(s, exts[k])

\* str.startswith(prefix)
startswith(s, pre) ==
  /\ Len(pre) <= Len(s)
  /\ SubSeq(s, 1, Len(pre)) = pre

\* str.rstrip("/")
RECURSIVE rstrip(_)
rstrip(s) ==
  IF s # <<>> /\ s[Len(s)] = "/" THEN rstrip(SubSeq(s, 1, Len(s) - 1)) ELSE s

\* str.replace(old, new) for a non-empty old: every non-overlapping
\* occurrence, scanning from the left.
RECURSIVE replace(_, _, _)
replace(s, old, new) ==
  IF Len(s) < Len(old) THEN s
  ELSE IF SubSeq(s, 1, Len(old)) = old
       THEN new \o replace(SubSeq(s, Len(old) + 1, Len(s)), old, new)
       ELSE <<Head(s)>> \o replace(Tail(s), old, new)

\* str.index(sub): position (from 1) of the first occurrence; 0 stands for
\* the ValueError Python raises when there is none.
index(s, sub) ==
  LET hits == { k \in 1..Len(s) : k + Len(sub) - 1 <= Len(s)
                                   /\ SubSeq(s, k, k + Len(sub) - 1) = sub }
  IN IF hits = {} THEN 0 ELSE CHOOSE k \in hits : \A j \in hits : k <= j

\* str.rfind(c) for one character, positions from 1, 0 when absent.
rfind(s, c) ==
  LET hits == { k \in 1..Len(s) : s[k] = c }
  IN IF hits = {} THEN 0 ELSE CHOOSE k \in hits : \A j \in hits : j <= k

-----------------------------------------------------------------------------
\* pathlib operations on POSIX paths.

\* PurePath.name: the last component.
PathName(p) == SubSeq(p, rfind(p, "/") + 1, Len(p))

\* PurePath.parent
PathParent(p) ==
  LET k == rfind(p, "/")
  IN IF k = 0 THEN <<".">> ELSE IF k = 1 THEN <<"/">> ELSE SubSeq(p, 1, k - 1)

\* Path / str: an absolute right operand replaces the left one.
PathJoin(dir, s) ==
  IF s = <<>> THEN dir
  ELSE IF Head(s) = "/" THEN s
  ELSE dir \o <<"/">> \o s

\* PurePath.suffix of a name: from the last dot on, unless the dot is the
\* first or the last character.
NameSuffix(name) ==
  LET k == rfind(name, ".")
  IN IF 1 < k /\ k < Len(name) THEN SubSeq(name, k, Len(name)) ELSE <<>>

\* PurePath.with_suffix(suffix)
with_suffix(p, suffix) ==
  LET old == NameSuffix(PathName(p))
  IN SubSeq(p, 1, Len(p) - Len(old)) \o suffix

\* Every directory mkdir(parents=True, exist_ok=True) makes sure exists.
RECURSIVE mkdir_parents(_)
mkdir_parents(d) ==
  IF d = <<"/">> \/ d = <<".">> THEN {} ELSE {d} \cup mkdir_parents(PathParent(d))

-----------------------------------------------------------------------------
\* AutoFilm.__init__

video_ext == << <<"m","p","4">>, <<"m","k","v">>, <<"f","l","v">>, <<"a","v","i">>,
                <<"w","m","v">>, <<"t","s">>, <<"r","m","v","b">>, <<"w","e","b","m">> >>
subtitle_ext == << <<"a","s","s">>, <<"s","r","t">>, <<"s","s","a">>, <<"s","u","b">> >>
img_ext == << <<"p","n","g">>, <<"j","p","g">> >>
nfo_ext == << <<"n","f","o">> >>
all_ext == video_ext \o subtitle_ext \o img_ext \o nfo_ext

\* The output directory read from Settings.output_dir (an absolute path).
output_dir == <<"/","o">>

\* subtitle / img / nfo as __init__ sets them from library_mode and the
\* configured value.
InitToggle_unforced(lib, configured) == configured
InitToggle(lib, configured) == IF lib THEN FALSE ELSE configured

-----------------------------------------------------------------------------
\* _sign

\* base64.urlsafe_b64encode(hmac-sha256(key, msg)): an uninterpreted
\* encoding that is injective in the key and the message.
b64_hmac_sha256(key, msg) == <<"b64hmac(">> \o key \o <<"|">> \o msg \o <<")">>

_sign_always(secret_key, data) ==
  <<"?sign=">> \o b64_hmac_sha256(secret_key, data \o <<":">> \o <<"0">>) \o <<":0">>
_sign(secret_key, data) ==
  IF secret_key = <<>> \/ secret_key = None THEN <<>>
  ELSE <<"?sign=">> \o b64_hmac_sha256(secret_key, data \o <<":">> \o <<"0">>) \o <<":0">>

-----------------------------------------------------------------------------
\* The configuration and the remote servers.

\* Keys of a server block that run() reads with [] (KeyError when absent).
RequiredFields == {"url", "username", "password", "base_path"}

Server(fields, url, base_path, token, remote) ==
  [fields |-> fields, url |-> url, base_path |-> base_path,
   token |-> token, remote |-> remote]

\* Server blocks the configuration may hold. remote is what the Alist
\* server does: "up", "authfail" (login or chdir raises), "listfail"
\* (rglob raises).
SrvX       == Server(RequiredFields \cup {"token"}, <<"h">>, <<"/","x">>, <<"k">>, "up")
SrvRoot    == Server(RequiredFields, <<"h","/">>, None, None, "up")
SrvRel     == Server(RequiredFields \cup {"token"}, <<"h">>, <<"x">>, <<>>, "up")
SrvNoUser  == Server(RequiredFields \ {"username"}, <<"h">>, <<"/","x">>, None, "up")
SrvAuth    == Server(RequiredFields, <<"h">>, <<"/","x">>, None, "authfail")
SrvList    == Server(RequiredFields, <<"h">>, <<>>, None, "listfail")

ServerPool == {SrvX, SrvRoot, SrvRel, SrvNoUser, SrvAuth, SrvList}
RunServerPool == {SrvX, SrvRoot, SrvNoUser, SrvAuth, SrvList}

\* Files a remote tree may hold below the base path: the path relative to
\* the base path and the route of the public URL ("/d" is Alist's download
\* route).
RemoteFile(rel, route) == [rel |-> rel, route |-> route]

FilePool == <<
  RemoteFile(<<"m",".","m","k","v">>, <<"/","d">>),
  RemoteFile(<<"a","/","m",".","m","k","v">>, <<"/","d">>),
  RemoteFile(<<"a","/","m",".","m","p","4">>, <<"/","d">>),
  RemoteFile(<<"a","/","s",".","s","r","t">>, <<"/","d">>),
  RemoteFile(<<"p",".","p","n","g">>, <<"/","d">>),
  RemoteFile(<<"i",".","n","f","o">>, <<"/","d">>),
  RemoteFile(<<"r",".","t","x","t">>, <<"/","d">>),
  RemoteFile(<<"c",".","b","t","s">>, <<"/","d">>),
  RemoteFile(<<"M",".","M","K","V">>, <<"/","d">>),
  RemoteFile(<<"n",".","m","k","v">>, <<"/","p">>) >>

\* The files the orchestration runs list: a video, a subtitle, an image and
\* a video whose URL has no download route.
RunFiles == {1, 4, 5, 10}

\* HTTP statuses a GET may answer with.
StatusPool == {200, 404, 500}

\* The bytes a GET of url answers with.
Body(url) == <<"body:">> \o url

-----------------------------------------------------------------------------
VARIABLES
  config_data,   \* Settings (library_mode, subtitle, img, nfo) and AlistServerList
  library_mode,  \* self.library_mode
  subtitle,      \* self.subtitle
  img,           \* self.img
  nfo,           \* self.nfo
  remote,        \* indices in FilePool of the files every remote tree holds
  si,            \* position of run()'s loop in AlistServerList
  run_pc,        \* "loop", "gather", "finished", or "raised" (run() left by an exception)
  tasks,         \* the _file_process tasks of the batch last launched
  files,         \* local files: records [path, content], one per path
  dirs,          \* local directories created
  requests,      \* URLs an HTTP GET was issued for
  crawled        \* positions of the servers _processer was called for

vars == <<config_data, library_mode, subtitle, img, nfo, remote, si, run_pc,
          tasks, files, dirs, requests, crawled>>

Settings == [library_mode : BOOLEAN, subtitle : BOOLEAN, img : BOOLEAN, nfo : BOOLEAN]

\* Settings the orchestration runs take.
RunSettings ==
  { s \in Settings : s.subtitle = s.img /\ s.img = s.nfo /\ (s.library_mode => s.subtitle) }

SeqsUpTo(S, n) == UNION { [1..k -> S] : k \in 1..n }

\* The state __init__ leaves, for the configuration (settings, servers) and
\* the remote tree tree.
Constructed(settings, servers, tree) ==
  /\ config_data = [Settings |-> settings, AlistServerList |-> servers]
  /\ library_mode = settings.library_mode
  /\ subtitle = InitToggle(settings.library_mode, settings.subtitle)
  /\ img = InitToggle(settings.library_mode, settings.img)
  /\ nfo = InitToggle(settings.library_mode, settings.nfo)
  /\ remote = tree
  /\ si = 1
  /\ run_pc = "loop"
  /\ tasks = <<>>
  /\ files = {}
  /\ dirs = {}
  /\ requests = {}
  /\ crawled = {}

\* Orchestration runs: up to MaxServers servers over a small remote tree.
Init ==
  \E settings \in RunSettings, servers \in SeqsUpTo(RunServerPool, MaxServers),
     tree \in SUBSET RunFiles :
    /\ Cardinality(tree) <= MaxEntries
    /\ Constructed(settings, servers, tree)

\* File runs: one server, every setting, any remote tree of up to
\* MaxEntries files of FilePool.
InitFile ==
  \E settings \in Settings, servers \in SeqsUpTo(ServerPool, 1),
     tree \in SUBSET (1..Len(FilePool)) :
    /\ Cardinality(tree) <= MaxEntries
    /\ Constructed(settings, servers, tree)

-----------------------------------------------------------------------------
\* AutoFilm.run

\* The try block of the loop body raises (KeyError) when a required key is
\* absent.
WellFormed(alist_server) == RequiredFields \subseteq alist_server.fields

\* alist_server_url after the rstrip of a trailing slash.
NormUrl(url) == IF endswith(url, <<"/">>) THEN rstrip(url) ELSE url

\* alist_server_base_path after the defaulting and the leading slash.
NormBasePath(base_path) ==
  LET b == IF base_path = None \/ base_path = <<>> THEN <<"/">> ELSE base_path
  IN IF ~startswith(b, <<"/">>) THEN <<"/">> \o b ELSE b

\* alist_server.get("token")
GetToken(alist_server) ==
  IF "token" \in alist_server.fields THEN alist_server.token ELSE None

Servers == config_data.AlistServerList

\* A server block that lacks a required key: the error is logged and the
\* loop goes on with the next block.
ConfigError ==
  /\ run_pc = "loop"
  /\ si <= Len(Servers)
  /\ ~WellFormed(Servers[si])
  /\ si' = si + 1
  /\ UNCHANGED <<config_data, library_mode, subtitle, img, nfo, remote, run_pc,
                 tasks, files, dirs, requests, crawled>>

\* The loop has gone through the whole list: run() returns.
LoopEnd ==
  /\ run_pc = "loop"
  /\ si > Len(Servers)
  /\ run_pc' = "finished"
  /\ UNCHANGED <<config_data, library_mode, subtitle, img, nfo, remote, si,
                 tasks, files, dirs, requests, crawled>>

-----------------------------------------------------------------------------
\* AutoFilm._processer

\* Members of a set of positions in increasing order.
RECURSIVE Ordered(_)
Ordered(S) ==
  IF S = {} THEN <<>>
  ELSE LET m == CHOOSE x \in S : \A y \in S : x <= y
       IN <<m>> \o Ordered(S \ {m})

\* The remote path of a file below base_path, as str(AlistPath) gives it.
RemotePath(base_path, rel) ==
  IF base_path = <<"/">> THEN <<"/">> \o rel ELSE rstrip(base_path) \o <<"/">> \o rel

\* fs.rglob("*.*") after fs.chdir(base_path): the files whose name holds a
\* dot, each with its remote path, name and public URL.
rglob(url, base_path) ==
  LET listed == Ordered({ k \in remote :
                          rfind(PathName(FilePool[k].rel), ".") # 0 })
  IN [ n \in 1..Len(listed) |->
         LET f == FilePool[listed[n]]
             path == RemotePath(base_path, f.rel)
         IN [path |-> path, name |-> PathName(path), url |-> url \o f.route \o path] ]

\* A task asyncio.create_task has made for _file_process(path, session,
\* base_path, token), not yet run.
\*   pc     "created", "get" (awaits the response), "read" (awaits the body),
\*          "done", "failed" (left by an exception), "cancelled"
\*   out    file_output_path, once computed
\*   dest   the path of the file the task opened for writing
\*   status the status of the response, 0 before there is one
\*   gets   the GETs the task issued
\*   file   "none", "open" (opened, body awaited), "written"
create_task(srv, entry, base_path, token) ==
  [srv |-> srv, path |-> entry.path, name |-> entry.name, url |-> entry.url,
   base_path |-> base_path, token |-> token,
   pc |-> "created", out |-> <<>>, dest |-> <<>>, status |-> 0, gets |-> 0,
   file |-> "none"]

\* run() calls asyncio.run(_processer(...)) for a well-formed block; login,
\* chdir and the listing succeed and one task per listed file is created.
Process ==
  /\ run_pc = "loop"
  /\ si <= Len(Servers)
  /\ WellFormed(Servers[si])
  /\ Servers[si].remote = "up"
  /\ LET alist_server == Servers[si]
         url == NormUrl(alist_server.url)
         base_path == NormBasePath(alist_server.base_path)
         token == GetToken(alist_server)
         listing == rglob(url, base_path)
     IN tasks' = [ n \in 1..Len(listing) |->
                     create_task(si, listing[n], base_path, token) ]
  /\ crawled' = crawled \cup {si}
  /\ run_pc' = "gather"
  /\ UNCHANGED <<config_data, library_mode, subtitle, img, nfo, remote, si,
                 files, dirs, requests>>

\* login, chdir or rglob raises: nothing in _processer or in run() catches
\* it (asyncio.run is called in the else clause of the try), so run() is
\* left by the exception.
ProcessRaises ==
  /\ run_pc = "loop"
  /\ si <= Len(Servers)
  /\ WellFormed(Servers[si])
  /\ Servers[si].remote # "up"
  /\ crawled' = crawled \cup {si}
  /\ run_pc' = "raised"
  /\ UNCHANGED <<config_data, library_mode, subtitle, img, nfo, remote, si,
                 tasks, files, dirs, requests>>

Pending == {"created", "get", "read"}

\* asyncio.gather(*tasks) returns once every task has returned.
AllDone_any(ts) == ts = <<>> \/ \E i \in DOMAIN ts : ts[i].pc = "done"
AllDone(ts) == \A i \in DOMAIN ts : ts[i].pc = "done"

\* gather returns, the session is closed, asyncio.run returns and the loop
\* of run() goes on with the next block.
GatherReturns ==
  /\ run_pc = "gather"
  /\ AllDone(tasks)
  /\ si' = si + 1
  /\ run_pc' = "loop"
  /\ UNCHANGED <<config_data, library_mode, subtitle, img, nfo, remote,
                 tasks, files, dirs, requests, crawled>>

\* A task has raised: gather (return_exceptions is False) passes the
\* exception on to _processer, which leaves the session block and raises out
\* of asyncio.run; asyncio.run cancels the tasks still pending. The event
\* loop runs the first step of every created task before _processer is
\* resumed. Nothing in run() catches the exception.
GatherRaises ==
  /\ run_pc = "gather"
  /\ \A i \in DOMAIN tasks : tasks[i].pc # "created"
  /\ \E i \in DOMAIN tasks : tasks[i].pc = "failed"
  /\ tasks' = [ i \in DOMAIN tasks |->
                  IF tasks[i].pc \in Pending
                  THEN [tasks[i] EXCEPT !.pc = "cancelled"]
                  ELSE tasks[i] ]
  /\ run_pc' = "raised"
  /\ UNCHANGED <<config_data, library_mode, subtitle, img, nfo, remote, si,
                 files, dirs, requests, crawled>>

-----------------------------------------------------------------------------
\* AutoFilm._file_process

\* file_output_path: output_dir / name in library mode, else output_dir /
\* str(path).replace(base_path, "").
file_output_path(t) ==
  IF library_mode
  THEN PathJoin(output_dir, t.name)
  ELSE PathJoin(output_dir, replace(t.path, t.base_path, <<>>))

\* file_alist_abs_path: the URL from two characters past the first "/d/".
file_alist_abs_path(url) ==
  SubSeq(url, index(url, <<"/","d","/">>) + 2, Len(url))

\* file_download_url
file_download_url(t) == t.url \o _sign(t.token, file_alist_abs_path(t.url))

\* The branch of the if / elif chain a name takes: "video", "img",
\* "subtitle", "nfo", or "skip" when no branch applies.
Branch(name) ==
  LET n == lower(name)
  IN IF endswith_any(n, video_ext) THEN "video"
     ELSE IF endswith_any(n, img_ext) /\ img THEN "img"
     ELSE IF endswith_any(n, subtitle_ext) /\ subtitle THEN "subtitle"
     ELSE IF endswith(n, <<"n","f","o">>) /\ nfo THEN "nfo"
     ELSE "skip"

\* resp.status == 200
StatusOK_lax(status) == status >= 200
StatusOK(status) == status = 200

\* open(mode="w" / "wb") and write: the file at path holds content.
WriteFile(fs, path, content) ==
  { f \in fs : f.path # path } \cup {[path |-> path, content |-> content]}

\* The first step of a task, up to its first await. The event loop runs the
\* first steps in the order the tasks were created.
\*   - a name that ends with no known extension: return;
\*   - a URL without "/d/": index raises ValueError;
\*   - a video: mkdir, write the .strm file, return;
\*   - an enabled image, subtitle or nfo file: mkdir, issue the GET, await;
\*   - else: return.
FileProcessStart(i) ==
  /\ run_pc = "gather"
  /\ tasks[i].pc = "created"
  /\ \A j \in 1..(i - 1) : tasks[j].pc # "created"
  /\ LET t == tasks[i]
         out == file_output_path(t)
     IN IF ~endswith_any(lower(t.name), all_ext)
        THEN /\ tasks' = [tasks EXCEPT ![i].pc = "done"]
             /\ UNCHANGED <<files, dirs, requests>>
        ELSE IF index(t.url, <<"/","d","/">>) = 0
        THEN /\ tasks' = [tasks EXCEPT ![i].pc = "failed", ![i].out = out]
             /\ UNCHANGED <<files, dirs, requests>>
        ELSE IF Branch(t.name) = "video"
        THEN LET strm == with_suffix(out, <<".","s","t","r","m">>)
             IN /\ dirs' = dirs \cup mkdir_parents(PathParent(out))
                /\ files' = WriteFile(files, strm, file_download_url(t))
                /\ tasks' = [tasks EXCEPT ![i].pc = "done", ![i].out = out,
                                          ![i].dest = strm, ![i].file = "written"]
                /\ UNCHANGED requests
        ELSE IF Branch(t.name) \in {"img", "subtitle", "nfo"}
        THEN /\ dirs' = dirs \cup mkdir_parents(PathParent(out))
             /\ requests' = requests \cup {file_download_url(t)}
             /\ tasks' = [tasks EXCEPT ![i].pc = "get", ![i].out = out,
                                       ![i].gets = @ + 1]
             /\ UNCHANGED files
        ELSE /\ tasks' = [tasks EXCEPT ![i].pc = "done", ![i].out = out]
             /\ UNCHANGED <<files, dirs, requests>>
  /\ UNCHANGED <<config_data, library_mode, subtitle, img, nfo, remote, si,
                 run_pc, crawled>>

\* The response of the GET arrives. On 200 the file is opened for writing
\* (created empty) and the task awaits the body; on any other status the
\* task returns.
GetResponse(i, status) ==
  /\ tasks[i].pc = "get"
  /\ IF StatusOK(status)
     THEN /\ files' = WriteFile(files, tasks[i].out, <<>>)
          /\ tasks' = [tasks EXCEPT ![i].pc = "read", ![i].status = status,
                                    ![i].dest = tasks[i].out, ![i].file = "open"]
     ELSE /\ tasks' = [tasks EXCEPT ![i].pc = "done", ![i].status = status]
          /\ UNCHANGED files
  /\ UNCHANGED <<config_data, library_mode, subtitle, img, nfo, remote, si,
                 run_pc, dirs, requests, crawled>>

\* The body arrives: it is written to the open file and the task returns.
ReadBody(i) ==
  /\ tasks[i].pc = "read"
  /\ files' = WriteFile(files, tasks[i].dest, Body(file_download_url(tasks[i])))
  /\ tasks' = [tasks EXCEPT ![i].pc = "done", ![i].file = "written"]
  /\ UNCHANGED <<config_data, library_mode, subtitle, img, nfo, remote, si,
                 run_pc, dirs, requests, crawled>>

\* session.get or resp.read raises (the connection fails): the task is left
\* by the exception.
NetworkError(i) ==
  /\ tasks[i].pc \in {"get", "read"}
  /\ tasks' = [tasks EXCEPT ![i].pc = "failed"]
  /\ UNCHANGED <<config_data, library_mode, subtitle, img, nfo, remote, si,
                 run_pc, files, dirs, requests, crawled>>

-----------------------------------------------------------------------------
Next ==
  \/ ConfigError
  \/ LoopEnd
  \/ Process
  \/ ProcessRaises
  \/ GatherReturns
  \/ GatherRaises
  \/ \E i \in DOMAIN tasks : FileProcessStart(i)
  \/ \E i \in DOMAIN tasks, status \in StatusPool : GetResponse(i, status)
  \/ \E i \in DOMAIN tasks : ReadBody(i)
  \/ \E i \in DOMAIN tasks : NetworkError(i)

Spec == Init /\ [][Next]_vars

SpecFile == InitFile /\ [][Next]_vars

-----------------------------------------------------------------------------
\* Vocabulary of the properties.

Terminal == {"done", "failed", "cancelled"}

\* run() is over: it returned or was left by an exception.
RunOver == run_pc \in {"finished", "raised"}

Range(f) == { f[k] : k \in DOMAIN f }

\* The extension of a name: what follows its last dot, in lower case.
ExtOf(name) ==
  LET k == rfind(name, ".")
  IN IF k = 0 THEN <<>> ELSE lower(SubSeq(name, k + 1, Len(name)))

\* The category the extension of a name puts it in.
Category(name) ==
  IF ExtOf(name) \in Range(video_ext) THEN "Video"
  ELSE IF ExtOf(name) \in Range(subtitle_ext) THEN "Subtitle"
  ELSE IF ExtOf(name) \in Range(img_ext) THEN "Image"
  ELSE IF ExtOf(name) \in Range(nfo_ext) THEN "Metadata"
  ELSE "Ignored"

\* The toggle that governs a category of downloaded files.
Toggle(category) ==
  CASE category = "Subtitle" -> subtitle
    [] category = "Image" -> img
    [] category = "Metadata" -> nfo
    [] OTHER -> FALSE

\* The remote path with only its leading base path removed, joined onto
\* output_dir.
MirroredPath(path, base_path) ==
  LET rest == SubSeq(path, Len(base_path) + 1, Len(path))
      rel == IF rest # <<>> /\ Head(rest) = "/" THEN Tail(rest) ELSE rest
  IN output_dir \o <<"/">> \o rel

\* The sign query string of a URL under a secret, empty for no secret.
SignQuery(secret, url) ==
  IF secret = <<>> \/ secret = None THEN <<>>
  ELSE <<"?sign=">>
       \o b64_hmac_sha256(secret, file_alist_abs_path(url) \o <<":">> \o <<"0">>)
       \o <<":0">>

STRM == <<".","s","t","r","m">>

-----------------------------------------------------------------------------
\* C1: when login, chdir or the listing fails for a server, run() goes on:
\* once run() is over, every well-formed server later in the list has been
\* crawled.
C1_LaterServersCrawled ==
  RunOver =>
    \A k \in DOMAIN Servers, j \in DOMAIN Servers :
      (k < j /\ k \in crawled /\ Servers[k].remote # "up" /\ WellFormed(Servers[j]))
        => j \in crawled

\* C2: a failure inside one task does not cancel the sibling tasks of its
\* batch: no task is ever cancelled.
C2_SiblingsNotCancelled ==
  \A i \in DOMAIN tasks :
    (\E j \in DOMAIN tasks : j # i /\ tasks[j].pc = "failed")
      => tasks[i].pc # "cancelled"

\* C3: when the list holds a server block that lacks a required key, then
\* once run() is over no such block has been crawled and every well-formed
\* block of the list, before or after it, has been.
C3_MalformedSkippedOthersCrawled ==
  (RunOver /\ \E k \in DOMAIN Servers : ~WellFormed(Servers[k])) =>
    \A j \in DOMAIN Servers : (j \in crawled) <=> WellFormed(Servers[j])

\* C4: in mirrored mode the local path of every entry is output_dir joined
\* with the remote path less its leading base path, directories kept.
C4_MirroredPath ==
  ~library_mode =>
    \A i \in DOMAIN tasks :
      tasks[i].out # <<>> =>
        tasks[i].out = MirroredPath(tasks[i].path, tasks[i].base_path)

\* C5: an entry is handled as a video, subtitle, image or metadata file only
\* when its extension is in the set of that category; an entry with any
\* other extension gets no path, no file, no directory and no GET.
C5_OnlyKnownExtensionsHandled ==
  \A i \in DOMAIN tasks :
    /\ Category(tasks[i].name) = "Ignored" =>
         /\ tasks[i].out = <<>>
         /\ tasks[i].dest = <<>>
         /\ tasks[i].gets = 0
    /\ (tasks[i].dest # <<>> /\ endswith(tasks[i].dest, STRM)) =>
         Category(tasks[i].name) = "Video"
    /\ tasks[i].gets > 0 =>
         Category(tasks[i].name) \in {"Subtitle", "Image", "Metadata"}

\* C6: a subtitle, image or metadata entry opens its local file only with
\* its toggle on and a 200 response, and a task that returned has written
\* the file exactly then; with the toggle off it issues no GET; a non-200
\* response makes the task return without a file; at most one GET is issued.
C6_DownloadIffToggleAnd200 ==
  \A i \in DOMAIN tasks :
    LET t == tasks[i]
        on == Toggle(Category(t.name))
    IN Category(t.name) \in {"Subtitle", "Image", "Metadata"} =>
         /\ t.file # "none" => (on /\ t.status = 200 /\ t.dest = t.out)
         /\ t.pc = "done" => (t.file = "written" <=> (on /\ t.status = 200))
         /\ t.file # "none" => \E f \in files : f.path = t.out
         /\ ~on => (t.gets = 0 /\ t.status = 0 /\ t.file = "none")
         /\ t.status \notin {0, 200} => (t.pc = "done" /\ t.file = "none")
         /\ t.gets <= 1

C6_Witness ==
  \E i \in DOMAIN tasks, j \in DOMAIN tasks :
    /\ Category(tasks[i].name) = "Subtitle"
    /\ tasks[i].pc = "done" /\ tasks[i].status = 200 /\ tasks[i].file = "written"
    /\ Category(tasks[j].name) = "Image"
    /\ tasks[j].pc = "done" /\ tasks[j].status = 404 /\ tasks[j].file = "none"

\* C7: a video entry never awaits and issues no GET, whatever the toggles
\* and library_mode; the step in which its task returns leaves the mapped
\* path, suffix replaced by .strm, holding exactly the URL followed by the
\* sign query string.
C7_VideoInv ==
  \A i \in DOMAIN tasks :
    Category(tasks[i].name) = "Video" =>
      /\ tasks[i].pc \notin {"get", "read", "cancelled"}
      /\ tasks[i].gets = 0
      /\ tasks[i].pc = "done" =>
           \E f \in files : f.path = with_suffix(tasks[i].out, STRM)

C7_VideoStep ==
  \A i \in DOMAIN tasks :
    ( /\ Category(tasks[i].name) = "Video"
      /\ tasks[i].pc = "created"
      /\ i \in DOMAIN tasks'
      /\ tasks'[i].pc = "done" )
    => [path |-> with_suffix(tasks'[i].out, STRM),
        content |-> tasks[i].url \o SignQuery(tasks[i].token, tasks[i].url)]
         \in files'

\* C7: both parts, the invariant and the step in which the task returns.
C7_VideoMaterialized == [](C7_VideoInv) /\ [][C7_VideoStep]_vars

C7_Witness ==
  /\ library_mode
  /\ config_data.Settings.subtitle
  /\ \E i \in DOMAIN tasks, j \in DOMAIN tasks :
       /\ i < j
       /\ Category(tasks[i].name) = "Video" /\ Category(tasks[j].name) = "Video"
       /\ tasks[i].token = <<"k">>
       /\ tasks[i].pc = "done" /\ tasks[j].pc = "done"
       /\ tasks[i].dest = tasks[j].dest

\* C8: servers are processed one at a time: a task that has not ended
\* belongs to the server the loop is at, and the loop moves on or starts a
\* crawl only when every task of the batch before has ended.
C8_BatchInv ==
  \A i \in DOMAIN tasks :
    tasks[i].pc \notin Terminal => (tasks[i].srv = si /\ run_pc = "gather")

C8_BatchStep ==
  (si' # si \/ crawled' # crawled) =>
    \A i \in DOMAIN tasks : tasks[i].pc \in Terminal

\* C8: both parts, the invariant and the steps that move to another server.
C8_ServersSequential == [](C8_BatchInv) /\ [][C8_BatchStep]_vars

C8_Witness ==
  /\ si >= 2
  /\ run_pc = "gather"
  /\ \E i \in DOMAIN tasks, j \in DOMAIN tasks :
       /\ i < j
       /\ tasks[i].srv = si /\ tasks[j].srv = si
       /\ tasks[i].pc \in {"get", "read"}
       /\ tasks[j].pc = "done" /\ tasks[j].file = "written"

\* C9: in library mode subtitle, img and nfo are off whatever the
\* configuration says, no GET is ever issued, and every local file is a
\* .strm file directly in output_dir.
C9_LibraryModeOnlyStrm ==
  library_mode =>
    /\ ~subtitle /\ ~img /\ ~nfo
    /\ requests = {}
    /\ \A i \in DOMAIN tasks : tasks[i].gets = 0
    /\ \A f \in files : endswith(f.path, STRM) /\ PathParent(f.path) = output_dir

C9_Witness ==
  /\ library_mode
  /\ config_data.Settings.subtitle /\ config_data.Settings.img
  /\ config_data.Settings.nfo
  /\ run_pc = "finished"
  /\ \E i \in DOMAIN tasks : Category(tasks[i].name) = "Subtitle"
  /\ \E i \in DOMAIN tasks : Category(tasks[i].name) = "Video" /\ PathParent(tasks[i].path) # <<"/">>
  /\ files # {}

\* C10: in mirrored mode two distinct remote entries of a batch never write
\* the same local file.
C10_DisjointOutputs ==
  ~library_mode =>
    \A i \in DOMAIN tasks, j \in DOMAIN tasks :
      (i # j /\ tasks[i].path # tasks[j].path
        /\ tasks[i].dest # <<>> /\ tasks[j].dest # <<>>)
        => tasks[i].dest # tasks[j].dest

====
